---- MODULE Spec2Model ----
(***************************************************************************)
(* Model of the geodatabase migration scripts BG_Utility_Geodatabase.py    *)
(* and ROM_Utility_Geodatabase.py.                                         *)
(*                                                                         *)
(* A behaviour is one call of one function of the scripts: Init draws the  *)
(* content of the feature classes the call reads and writes, and each      *)
(* action is one function, run from its first line to its return or to the *)
(* exception that leaves it.  The GIS library is modelled by what the      *)
(* scripts use of it: cursors over rows, the editor's edit session, the    *)
(* output of a spatial join, and three-valued geometry relations.  A       *)
(* library call that can raise does so when the call's fault says so.      *)
(***************************************************************************)
EXTENDS Integers, Sequences, FiniteSets, TLC

VARIABLES
    op,     \* the scenario: which function's inputs the state holds
    env,    \* what the call reads and never writes: source rows, arguments
    fc,     \* the feature class the call writes: [fields, rows]
    fc0,    \* fc as it was before the call
    edit,   \* the editor of fc's workspace: [editing, inOp]
    fn,     \* the function that was called, "" before the call
    ret,    \* "" before the call, "ok" on return, else the exception raised
    out,    \* the value returned, NULL if none
    log,    \* the calls made on the editor and the warnings, in order
    pc      \* main(): the number of its steps that have run

vars == <<op, env, fc, fc0, edit, fn, ret, out, log, pc>>

NULL == "NULL"                      \* Python's None, a NULL attribute

(***************************************************************************)
(* Bounds of the model.                                                    *)
(***************************************************************************)
MaxSrcRows == 2                     \* rows of the source of update_fc_from_dict
MaxDstRows == 2                     \* rows of its destination
MaxStations == 2                    \* rows of the station (outer polygon) class
MaxGeomRows == 1                    \* rows of the class the spatial functions write
MaxSelfRows == 2                    \* rows of the class update_fc_self writes
MaxJunctions == 2                   \* rows of the target of update_conductor_type
MaxSwitches == 2                    \* rows of the destination of update_mig_issource
MaxSources == 1                     \* rows of the source of update_mig_issource
MaxFeatures == 1                    \* rows of the target of update_field_based_on_whether_it_lies
MaxLayers == 2                      \* entries of its mapping_layers
MaxConnectors == 1                  \* rows of the destination of update_mig_voltage

Range(s) == {s[i] : i \in DOMAIN s}

\* Python values: None is NULL, the integer n is PyInt(n), a string is itself
PyInt(n) == "int:" \o ToString(n)

\* str(value)
Str(value) ==
    IF value = NULL THEN "None"
    ELSE IF \E n \in 0..9 : value = PyInt(n)
         THEN ToString(CHOOSE n \in 0..9 : value = PyInt(n))
         ELSE value

\* OBJECTID: the row's number in its class, from 1
WithObjectIds(rows) ==
    [i \in DOMAIN rows |->
        [f \in DOMAIN rows[i] \cup {"OBJECTID"} |->
            IF f = "OBJECTID" THEN PyInt(i) ELSE rows[i][f]]]

SeqsUpTo(S, n) == UNION {[1..k -> S] : k \in 0..n}

(***************************************************************************)
(* Faults: the library call that raises during a call, if any.             *)
(*   read          the SearchCursor over the source (or the join output)   *)
(*   fetch, row    the UpdateCursor, when it fetches row `row`             *)
(*   update, row   cursor.updateRow on row `row`                           *)
(*   stopOperation edit.stopOperation() of the try body                    *)
(*   stopEditing   edit.stopEditing(True) of the try body                  *)
(* handler: edit.stopOperation() of the except handler raises as well.     *)
(***************************************************************************)
NoFault == [site |-> "none", row |-> 0, handler |-> FALSE]

CursorFaults(n) ==
    {NoFault} \cup [site : {"read"}, row : {0}, handler : {FALSE}]
              \cup [site : {"fetch", "update"}, row : 1..n, handler : {FALSE}]

EditorFaults(n) ==
    CursorFaults(n)
      \cup [site : {"stopOperation", "stopEditing"}, row : {0}, handler : BOOLEAN]
      \cup [site : {"update"}, row : 1..n, handler : {TRUE}]

(***************************************************************************)
(* arcpy.da.Editor.  A session is the working rows, the rows as they were  *)
(* when editing started, the editor's flags and the log.                   *)
(***************************************************************************)
Session(rows) ==
    [rows |-> rows, saved |-> rows, editing |-> FALSE, inOp |-> FALSE, log |-> <<>>]

startEditing(s) ==
    [s EXCEPT !.editing = TRUE, !.saved = s.rows,
              !.log = Append(s.log, <<"startEditing", "">>)]

startOperation(s) ==
    [s EXCEPT !.inOp = TRUE, !.log = Append(s.log, <<"startOperation", "">>)]

\* raises: the call is made and raises, leaving the session as it was
stopOperation(s, raises) ==
    IF raises THEN [s EXCEPT !.log = Append(s.log, <<"stopOperation", "">>)]
    ELSE [s EXCEPT !.inOp = FALSE, !.log = Append(s.log, <<"stopOperation", "">>)]

stopEditing(s, save, raises) ==
    LET entry == <<"stopEditing", IF save THEN "True" ELSE "False">> IN
    IF raises THEN [s EXCEPT !.log = Append(s.log, entry)]
    ELSE [s EXCEPT !.editing = FALSE, !.inOp = FALSE,
                   !.rows = IF save THEN s.rows ELSE s.saved,
                   !.log = Append(s.log, entry)]

\* an exception is raised: the log records it where it happens
Raise(s, exc) == [s EXCEPT !.log = Append(s.log, <<"raise", exc>>)]

\* a call, or a part of one, that runs outside any edit session
Unedited(rows, before, exc) ==
    LET s == [Session(rows) EXCEPT !.log = before]
    IN [s |-> IF exc = "none" THEN s ELSE Raise(s, exc), exc |-> exc]

(***************************************************************************)
(* except Exception as e: edit.stopOperation(); edit.stopEditing(False);   *)
(* raise.  s is the session when e has been raised.  An exception raised   *)
(* by the handler's own stopOperation leaves the handler before            *)
(* stopEditing(False) and replaces e.                                      *)
(***************************************************************************)
\* ExceptHandler that ends the session with stopEditing(True)
ExceptHandler_SavesEdits(s, exc, fault) ==
    LET a == stopOperation(s, fault.handler) IN
    IF fault.handler THEN [s |-> Raise(a, "HandlerError"), exc |-> "HandlerError"]
    ELSE [s |-> stopEditing(a, TRUE, FALSE), exc |-> exc]

ExceptHandler(s, exc, fault) ==
    LET a == stopOperation(s, fault.handler) IN
    IF fault.handler THEN [s |-> Raise(a, "HandlerError"), exc |-> "HandlerError"]
    ELSE [s |-> stopEditing(a, FALSE, FALSE), exc |-> exc]

(***************************************************************************)
(* The end of a try body and its except clause: s and exc are the session  *)
(* and the exception ("none" if none) the cursor loops left.               *)
(***************************************************************************)
TryCommit(s, exc, fault) ==
    IF exc # "none" THEN ExceptHandler(Raise(s, exc), exc, fault)
    ELSE LET a == stopOperation(s, fault.site = "stopOperation") IN
         IF fault.site = "stopOperation"
         THEN ExceptHandler(Raise(a, "StopOperationError"), "StopOperationError", fault)
         ELSE LET b == stopEditing(a, TRUE, fault.site = "stopEditing") IN
              IF fault.site = "stopEditing"
              THEN ExceptHandler(Raise(b, "StopEditingError"), "StopEditingError", fault)
              ELSE [s |-> b, exc |-> "none"]

(***************************************************************************)
(* with arcpy.da.UpdateCursor(...) as cursor: for row in cursor: ...       *)
(* plan[i] says what the loop body does with row i: the cursor fetches it  *)
(* if plan[i].sel, the body raises on it if plan[i].raises, and calls      *)
(* cursor.updateRow with plan[i].row if plan[i].writes.  The result is the *)
(* rows as the loop left them, the exception that ended it ("none" if it   *)
(* ran to the end) and the position of the last row fetched (0 if none).   *)
(***************************************************************************)
Skip(row) == [sel |-> FALSE, raises |-> FALSE, writes |-> FALSE, row |-> row]
Keep(row) == [sel |-> TRUE, raises |-> FALSE, writes |-> FALSE, row |-> row]
Fail(row) == [sel |-> TRUE, raises |-> TRUE, writes |-> FALSE, row |-> row]
Write(row) == [sel |-> TRUE, raises |-> FALSE, writes |-> TRUE, row |-> row]

UpdateCursor(rows, plan, fault) ==
    LET n == Len(rows)
        step[i \in 0..n] ==
            IF i = 0 THEN [rows |-> rows, exc |-> "none", last |-> 0]
            ELSE LET p == step[i - 1] IN
                 IF p.exc # "none" \/ ~plan[i].sel THEN p
                 ELSE IF fault.site = "fetch" /\ fault.row = i
                      THEN [p EXCEPT !.exc = "FetchError"]
                 ELSE IF plan[i].raises
                      THEN [p EXCEPT !.exc = "AttributeError", !.last = i]
                 ELSE IF ~plan[i].writes THEN [p EXCEPT !.last = i]
                 ELSE IF fault.site = "update" /\ fault.row = i
                      THEN [p EXCEPT !.exc = "UpdateError", !.last = i]
                 ELSE [p EXCEPT !.rows[i] = plan[i].row, !.last = i]
    IN step[n]

(***************************************************************************)
(* update_fc_from_dict                                                     *)
(***************************************************************************)
Keys == {"k1", "k2"}

SrcRow == [key : Keys, A : {"a1", "a2"}, B : {"b1"}]
DstRow == [key : Keys, X : {"x0"}, Y : {"y0"}, sel : BOOLEAN]

DstFields == {"key", "X", "Y", "sel"}
GeomFields == {"SHAPE", "MIG_STATIONGUID", "MIG_PARENTTYPE"}
SelfFields == {"OBJECTID", "GLOBALID", "MIG_OID", "MIG_OID_TEXT", "MIG_GLOBALID"}
JunctionFields == {"OBJECTID", "MIG_PARENTTYPE"}
SwitchFields == {"SUBSOURCE", "MIG_ISSOURCE", "OBJECTID"}
ConnectorFields == {"OBJECTID", "MIG_VOLTAGE"}

\* field_pairs: (source field, destination field)
FieldPairs == { <<  <<"A", "X">>  >>,
                <<  <<"A", "X">>, <<"B", "Y">>  >>,
                <<  <<"B", "X">>, <<"A", "Y">>  >> }

\* origin_fc_dict: for every key of the source, its last row's source fields
OriginDict(source, field_pairs) ==
    LET last(k) == CHOOSE i \in DOMAIN source :
                       /\ source[i].key = k
                       /\ \A j \in DOMAIN source : source[j].key = k => j <= i
    IN [k \in {source[i].key : i \in DOMAIN source} |->
           [f \in {field_pairs[i][1] : i \in DOMAIN field_pairs} |-> source[last(k)][f]]]

\* CopyFields with the source field of the first pair written to every
\* destination field (related_data[field_pairs[0][0]])
CopyFields_FirstSourceField(row, related_data, field_pairs) ==
    LET dst == {field_pairs[i][2] : i \in DOMAIN field_pairs}
    IN [f \in DOMAIN row |->
           IF f \in dst THEN related_data[field_pairs[1][1]] ELSE row[f]]

\* for i in range(len(destination_fields)): row[i+1] = related_data[field_pairs[i][0]]
CopyFields(row, related_data, field_pairs) ==
    LET dst == {field_pairs[i][2] : i \in DOMAIN field_pairs}
        pairOf(f) == CHOOSE i \in DOMAIN field_pairs : field_pairs[i][2] = f
    IN [f \in DOMAIN row |->
           IF f \in dst THEN related_data[field_pairs[pairOf(f)][1]] ELSE row[f]]

\* the two cursors of update_fc_from_dict
FromDictLoops(source, rows, field_pairs, fault) ==
    IF fault.site = "read" THEN [rows |-> rows, exc |-> "ReadError", last |-> 0]
    ELSE LET dict == OriginDict(source, field_pairs)
             plan == [i \in DOMAIN rows |->
                        IF ~rows[i].sel THEN Skip(rows[i])
                        ELSE IF rows[i].key \in DOMAIN dict
                             THEN Write(CopyFields(rows[i], dict[rows[i].key], field_pairs))
                             ELSE Keep(rows[i])]
         IN UpdateCursor(rows, plan, fault)

\* BG: the finally block names common_guid, which is unbound when the
\* cursor fetched no row
BG_FromDict(source, rows, field_pairs, fault) ==
    LET s0 == startOperation(startEditing(Session(rows)))
        body == FromDictLoops(source, rows, field_pairs, fault)
        done == TryCommit([s0 EXCEPT !.rows = body.rows], body.exc, fault)
    IN IF body.last = 0
       THEN [s |-> Raise(done.s, "NameError"), exc |-> "NameError", fields |-> DstFields]
       ELSE [s |-> [done.s EXCEPT !.log =
                       Append(done.s.log, <<"AddWarning", rows[body.last].key>>)],
             exc |-> done.exc, fields |-> DstFields]

\* ROM: no edit session; every updateRow is final
ROM_FromDict(source, rows, field_pairs, fault) ==
    LET body == FromDictLoops(source, rows, field_pairs, fault)
    IN [s |-> Unedited(body.rows, <<>>, body.exc).s, exc |-> body.exc,
        fields |-> DstFields]

InitFromDict ==
    /\ op = "from_dict"
    /\ env \in [source : SeqsUpTo(SrcRow, MaxSrcRows), field_pairs : FieldPairs]
    /\ fc \in [fields : {DstFields}, rows : SeqsUpTo(DstRow, MaxDstRows)]

(***************************************************************************)
(* Geometry.  The predicates are the GIS library's; the model holds, for   *)
(* every row and every station polygon, how the row's geometry lies to the *)
(* polygon, and the predicates read it.  A point has no "crosses".         *)
(***************************************************************************)
Relations(kind) ==
    CASE kind = "line"    -> {"within", "crosses", "touches", "disjoint"}
      [] kind = "point"   -> {"within", "touches", "disjoint"}
      [] kind = "polygon" -> {"within", "disjoint"}

within(r) == r = "within"
disjoint(r) == r = "disjoint"
touches(r) == r = "touches"

\* GLOBALID of the station in row i of the station class: unique per row
GlobalId(i) == ToString(i)

\* station_fc: per row its GLOBALID and SHAPE@ (NULL for an empty geometry)
StationClasses ==
    UNION {[1..n -> {NULL, "polygon"}] : n \in 0..MaxStations}

\* station_dict = {row[0]: row[1] for row in SearchCursor(station_fc, ...)}
\* GLOBALIDs are unique, so .items() yields the rows in their order
StationDict(stations) ==
    [i \in DOMAIN stations |-> [id |-> GlobalId(i), polygon |-> stations[i]]]

\* the rows of a class of the given kind beside `stations`: a NULL geometry,
\* like a NULL polygon, lies nowhere
GeomRows(kind, stations, statuses) ==
    {r \in [SHAPE : {NULL, "geometry"},
            rel : [DOMAIN stations -> Relations(kind)],
            MIG_STATIONGUID : {"old"},
            status : statuses,
            MIG_PARENTTYPE : {"old"}] :
        \A i \in DOMAIN stations :
            (r.SHAPE = NULL \/ stations[i] = NULL) => r.rel[i] = "disjoint"}

(***************************************************************************)
(* update_line_fc_within_station_boundary and                              *)
(* update_point_fc_within_station_boundary                                 *)
(***************************************************************************)
StatusInside(kind) == "Inside"
StatusPartly(kind) == IF kind = "line" THEN "Partly Inside" ELSE "On Boundary"
StatusOutside(kind) == "Outside"

\* the elif of the station loop: not line_geom.disjoint(station_polygon) for
\* a line, point_geom.touches(station_polygon) for a point
SecondTest(kind, r) == IF kind = "line" THEN ~disjoint(r) ELSE touches(r)

\* the first station, in station_dict order, at which the station loop stops:
\* one that passes a test, or (without the None checks) one with no polygon.
\* 0 if the loop runs to its end.
FirstStop(kind, rel, dict, noneChecks) ==
    LET stops == {i \in DOMAIN dict :
                     IF dict[i].polygon = NULL THEN ~noneChecks
                     ELSE within(rel[i]) \/ SecondTest(kind, rel[i])}
    IN IF stops = {} THEN 0
       ELSE CHOOSE i \in stops : \A j \in stops : i <= j

\* BoundaryRow without `row[1] = None` where no station passes a test
BoundaryRow_KeepsStationGuid(kind, row, dict, noneChecks) ==
    LET i == FirstStop(kind, row.rel, dict, noneChecks) IN
    IF row.SHAPE = NULL /\ noneChecks THEN Keep(row)
    ELSE IF row.SHAPE = NULL /\ dict # <<>> THEN Fail(row)
    ELSE IF i = 0 THEN Write([row EXCEPT !.status = StatusOutside(kind)])
    ELSE IF dict[i].polygon = NULL THEN Fail(row)
    ELSE IF within(row.rel[i])
         THEN Write([row EXCEPT !.MIG_STATIONGUID = dict[i].id,
                                !.status = StatusInside(kind)])
    ELSE Write([row EXCEPT !.MIG_STATIONGUID = dict[i].id,
                           !.status = StatusPartly(kind)])

\* the body of the row loop, for one row
BoundaryRow(kind, row, dict, noneChecks) ==
    LET i == FirstStop(kind, row.rel, dict, noneChecks) IN
    IF row.SHAPE = NULL /\ noneChecks THEN Keep(row)
    ELSE IF row.SHAPE = NULL /\ dict # <<>> THEN Fail(row)
    ELSE IF i = 0
         THEN Write([row EXCEPT !.MIG_STATIONGUID = NULL,
                                !.status = StatusOutside(kind)])
    ELSE IF dict[i].polygon = NULL THEN Fail(row)
    ELSE IF within(row.rel[i])
         THEN Write([row EXCEPT !.MIG_STATIONGUID = dict[i].id,
                                !.status = StatusInside(kind)])
    ELSE Write([row EXCEPT !.MIG_STATIONGUID = dict[i].id,
                           !.status = StatusPartly(kind)])

\* arcpy.AddField_management / arcpy.DeleteField_management on the status field
AddField(class) ==
    [fields |-> class.fields \cup {"status"},
     rows |-> [i \in DOMAIN class.rows |-> [class.rows[i] EXCEPT !.status = NULL]]]

\* DeleteField that leaves the field in the class
DeleteField_KeepsField(class) == class

DeleteField(class) ==
    [fields |-> class.fields \ {"status"},
     rows |-> [i \in DOMAIN class.rows |-> [class.rows[i] EXCEPT !.status = NULL]]]

\* BG: the field is added and station_fc read before the edit session; the
\* finally block deletes the field if this call added it
BG_Boundary(kind, stations, class, fault) ==
    LET field_added == "status" \notin class.fields
        added == IF field_added THEN AddField(class) ELSE class
        rows == added.rows
        dict == StationDict(stations)
        plan == [i \in DOMAIN rows |-> BoundaryRow(kind, rows[i], dict, TRUE)]
        s0 == startOperation(startEditing(Session(rows)))
        body == UpdateCursor(rows, plan, fault)
        done == TryCommit([s0 EXCEPT !.rows = body.rows], body.exc, fault)
        left == [fields |-> added.fields, rows |-> done.s.rows]
        final == IF field_added THEN DeleteField(left) ELSE left
    IN IF fault.site = "read"
       THEN [s |-> Unedited(rows, <<>>, "ReadError").s, exc |-> "ReadError",
             fields |-> added.fields]
       ELSE [s |-> [done.s EXCEPT !.rows = final.rows], exc |-> done.exc,
             fields |-> final.fields]

\* ROM: no None checks, no edit session; the field is deleted on return only
ROM_Boundary(kind, stations, class, fault) ==
    LET field_added == "status" \notin class.fields
        added == IF field_added THEN AddField(class) ELSE class
        rows == added.rows
        dict == StationDict(stations)
        plan == [i \in DOMAIN rows |-> BoundaryRow(kind, rows[i], dict, FALSE)]
        body == UpdateCursor(rows, plan, fault)
        left == [fields |-> added.fields, rows |-> body.rows]
        final == IF field_added THEN DeleteField(left) ELSE left
    IN IF fault.site = "read"
       THEN [s |-> Unedited(rows, <<>>, "ReadError").s, exc |-> "ReadError",
             fields |-> added.fields]
       ELSE IF body.exc # "none"
       THEN [s |-> Unedited(left.rows, <<>>, body.exc).s, exc |-> body.exc,
             fields |-> left.fields]
       ELSE [s |-> Session(final.rows), exc |-> "none", fields |-> final.fields]

(***************************************************************************)
(* update_fc_within                                                        *)
(***************************************************************************)
\* WithinRow with all() for any()
WithinRow_All(row, outer_polygons, noneChecks) ==
    LET nones == {i \in DOMAIN outer_polygons : outer_polygons[i] = NULL}
        inAll == \A i \in DOMAIN outer_polygons \ nones : within(row.rel[i])
        station == [row EXCEPT !.MIG_PARENTTYPE = "Station"]
    IN IF noneChecks
       THEN IF row.SHAPE # NULL /\ inAll THEN Write(station) ELSE Keep(row)
       ELSE IF outer_polygons # <<>> /\ (row.SHAPE = NULL \/ nones # {}) THEN Fail(row)
       ELSE IF inAll THEN Write(station)
       ELSE Keep(row)

\* within_outer = any(inner_polygon.within(outer) for outer in outer_polygons
\*                    [if outer is not None])
WithinRow(row, outer_polygons, noneChecks) ==
    LET hits == {i \in DOMAIN outer_polygons :
                    outer_polygons[i] # NULL /\ within(row.rel[i])}
        nones == {i \in DOMAIN outer_polygons : outer_polygons[i] = NULL}
        station == [row EXCEPT !.MIG_PARENTTYPE = "Station"]
    IN IF noneChecks
       THEN IF row.SHAPE # NULL /\ hits # {} THEN Write(station) ELSE Keep(row)
       ELSE IF row.SHAPE = NULL
            THEN IF outer_polygons = <<>> THEN Keep(row) ELSE Fail(row)
       ELSE IF hits = {}
            THEN IF nones = {} THEN Keep(row) ELSE Fail(row)
       ELSE IF \E j \in nones : \A i \in hits : j < i THEN Fail(row)
       ELSE Write(station)

\* BG: outer_fc is read before the edit session starts
BG_Within(outer_polygons, class, fault) ==
    LET rows == class.rows
        plan == [i \in DOMAIN rows |-> WithinRow(rows[i], outer_polygons, TRUE)]
        s0 == startOperation(startEditing(Session(rows)))
        body == UpdateCursor(rows, plan, fault)
        done == TryCommit([s0 EXCEPT !.rows = body.rows], body.exc, fault)
    IN IF fault.site = "read"
       THEN [s |-> Unedited(rows, <<>>, "ReadError").s, exc |-> "ReadError",
             fields |-> class.fields]
       ELSE [s |-> done.s, exc |-> done.exc, fields |-> class.fields]

ROM_Within(outer_polygons, class, fault) ==
    LET rows == class.rows
        plan == [i \in DOMAIN rows |-> WithinRow(rows[i], outer_polygons, FALSE)]
        body == UpdateCursor(rows, plan, fault)
    IN IF fault.site = "read"
       THEN [s |-> Unedited(rows, <<>>, "ReadError").s, exc |-> "ReadError",
             fields |-> class.fields]
       ELSE [s |-> Unedited(body.rows, <<>>, body.exc).s, exc |-> body.exc,
             fields |-> class.fields]

InitSpatial ==
    /\ op = "spatial"
    /\ \E kind \in {"line", "point", "polygon"}, stations \in StationClasses :
          /\ env = [kind |-> kind, stations |-> stations]
          /\ \/ fc \in [fields : {GeomFields \cup {"status"}},
                        rows : SeqsUpTo(GeomRows(kind, stations, {"old"}), MaxGeomRows)]
             \/ /\ kind # "polygon"
                /\ fc \in [fields : {GeomFields},
                           rows : SeqsUpTo(GeomRows(kind, stations, {NULL}), MaxGeomRows)]

(***************************************************************************)
(* update_fc_self                                                          *)
(***************************************************************************)
\* field_updates of main(): (source field, target field, ...)
FieldUpdates ==
    { << <<"OBJECTID", "MIG_OID", "MIG_OID_TEXT">>, <<"GLOBALID", "MIG_GLOBALID">> >> }

\* 'TEXT' in each_target_field
ContainsTEXT(field) == field \in {"MIG_OID_TEXT"}

\* SelfTuple that leaves a target field alone when it already contains data
\* (row[target_index] not in [None, '', 0])
SelfTuple_KeepsExistingData(row, tuple, str_text) ==
    LET source_value == row[tuple[1]]
        targets == {tuple[j] : j \in 2..Len(tuple)}
    IN [f \in DOMAIN row |->
           IF f \notin targets \/ row[f] \notin {NULL, "", PyInt(0)} THEN row[f]
           ELSE IF str_text /\ ContainsTEXT(f) THEN Str(source_value)
           ELSE source_value]

\* one tuple of field_updates on one row: every target field takes the value
\* of the source field, as a string if str_text and its name contains 'TEXT'
SelfTuple(row, tuple, str_text) ==
    LET source_value == row[tuple[1]]
        targets == {tuple[j] : j \in 2..Len(tuple)}
    IN [f \in DOMAIN row |->
           IF f \notin targets THEN row[f]
           ELSE IF str_text /\ ContainsTEXT(f) THEN Str(source_value)
           ELSE source_value]

\* for update_sub_tuple in field_updates: ...
SelfRow(row, field_updates, str_text) ==
    LET after[k \in 0..Len(field_updates)] ==
            IF k = 0 THEN row ELSE SelfTuple(after[k - 1], field_updates[k], str_text)
    IN after[Len(field_updates)]

\* BG, and add_DB_GLOBALID__DB_OBJECTID.py with str_text = FALSE
BG_Self(rows, field_updates, str_text, fault) ==
    LET plan == [i \in DOMAIN rows |-> Write(SelfRow(rows[i], field_updates, str_text))]
        s0 == startOperation(startEditing(Session(rows)))
        body == UpdateCursor(rows, plan, fault)
        done == TryCommit([s0 EXCEPT !.rows = body.rows], body.exc, fault)
    IN [s |-> done.s, exc |-> done.exc, fields |-> SelfFields]

ROM_Self(rows, field_updates, fault) ==
    LET plan == [i \in DOMAIN rows |-> Write(SelfRow(rows[i], field_updates, TRUE))]
        body == UpdateCursor(rows, plan, fault)
    IN [s |-> Unedited(body.rows, <<>>, body.exc).s, exc |-> body.exc,
        fields |-> SelfFields]

SelfRows ==
    [GLOBALID : {"{guid}"}, MIG_OID : {NULL}, MIG_OID_TEXT : {NULL}, MIG_GLOBALID : {NULL}]
      \cup [GLOBALID : {"{guid}", NULL}, MIG_OID : {PyInt(0)}, MIG_OID_TEXT : {"old"},
            MIG_GLOBALID : {"{old}"}]

InitSelf ==
    /\ op = "self"
    /\ env \in [field_updates : FieldUpdates]
    /\ \E rows \in SeqsUpTo(SelfRows, MaxSelfRows) :
          fc = [fields |-> SelfFields, rows |-> WithObjectIds(rows)]

(***************************************************************************)
(* classify_junction and update_conductor_type                             *)
(***************************************************************************)
overhead_types ==
    {"Vazdushna liniya VN", "Vazdushna liniya SrN", "Vazdushna liniya NN",
     "Vazdushna izolirana liniya SrN", "Vazdushna izolirana liniya NN"}

underground_types ==
    {"Kabelna liniya VN", "Kabelna liniya SrN", "Kabelna liniya NN",
     "Zemno vazhe VN", "Zemno vazhe SrN"}

\* the values of SUBTYPE_CD: the listed ones and one that is in neither list
Subtypes == overhead_types \cup underground_types \cup {NULL}

\* classify_junction with any() for all()
classify_junction_Any(subtypes, overhead, underground) ==
    IF \E subtype \in subtypes : subtype \in overhead
    THEN "Overhead Conductor"
    ELSE IF \E subtype \in subtypes : subtype \in underground
         THEN "Underground Conductor"
         ELSE "Overhead Conductor Underground Conductor"

classify_junction(subtypes, overhead, underground) ==
    IF \A subtype \in subtypes : subtype \in overhead
    THEN "Overhead Conductor"
    ELSE IF \A subtype \in subtypes : subtype \in underground
         THEN "Underground Conductor"
         ELSE "Overhead Conductor Underground Conductor"

\* SpatialJoin(target_fc, conductor_fc, JOIN_ONE_TO_MANY, KEEP_COMMON, INTERSECT):
\* one (TARGET_FID, SUBTYPE_CD) per target row and conductor that intersect;
\* row.joined holds the subtypes of the conductors that intersect the row
TempJoinConductor(rows) ==
    {<<rows[i].OBJECTID, subtype>> : i \in DOMAIN rows, subtype \in Subtypes}
      \cap UNION {{rows[i].OBJECTID} \X rows[i].joined : i \in DOMAIN rows}

junction_conductor_map(temp_join) ==
    [target_fid \in {r[1] : r \in temp_join} |->
        {r[2] : r \in {q \in temp_join : q[1] = target_fid}}]

\* ConductorRow without the test row[0] == 'Conductor'
ConductorRow_AnyParentType(row, map) ==
    IF row.OBJECTID \in DOMAIN map
    THEN Write([row EXCEPT !.MIG_PARENTTYPE =
                   classify_junction(map[row.OBJECTID], overhead_types, underground_types)])
    ELSE Keep(row)

ConductorRow(row, map) ==
    IF row.MIG_PARENTTYPE = "Conductor" /\ row.OBJECTID \in DOMAIN map
    THEN Write([row EXCEPT !.MIG_PARENTTYPE =
                   classify_junction(map[row.OBJECTID], overhead_types, underground_types)])
    ELSE Keep(row)

\* the join and its SearchCursor run before the edit session starts
BG_ConductorType(rows, fault) ==
    LET map == junction_conductor_map(TempJoinConductor(rows))
        plan == [i \in DOMAIN rows |-> ConductorRow(rows[i], map)]
        s0 == startOperation(startEditing(Session(rows)))
        body == UpdateCursor(rows, plan, fault)
        done == TryCommit([s0 EXCEPT !.rows = body.rows], body.exc, fault)
    IN IF fault.site = "read"
       THEN [s |-> Unedited(rows, <<>>, "ReadError").s, exc |-> "ReadError",
             fields |-> JunctionFields]
       ELSE [s |-> done.s, exc |-> done.exc, fields |-> JunctionFields]

JoinedSubtypes == {"Vazdushna liniya SrN", "Kabelna liniya SrN", NULL}

InitConductor ==
    /\ op = "conductor"
    /\ env = [conductor_fc |-> "Conductor"]
    /\ \E rows \in SeqsUpTo([MIG_PARENTTYPE : {"Conductor", "Busbar"},
                             joined : SUBSET JoinedSubtypes], MaxJunctions) :
          fc = [fields |-> JunctionFields, rows |-> WithObjectIds(rows)]

InitClassify ==
    /\ op = "classify"
    /\ env \in [subtypes : SUBSET Subtypes]
    /\ fc = [fields |-> {}, rows |-> <<>>]

(***************************************************************************)
(* check_relationship and update_mig_issource (BG)                         *)
(***************************************************************************)
\* source: the values of global_id_column in the rows of source_fc
check_relationship(source, global_id_value) ==
    \E i \in DOMAIN source : source[i] = global_id_value

\* check_relationship raises on row i: the inner except clause catches it
CheckRaises(fault, i) == fault.site = "check" /\ fault.row \in {0, i}

\* IsSourceRow with the two tests in the other order: `if subsource == 1`
\* first, `elif relationship_exists` second
IsSourceRow_SubsourceFirst(row, i, given, source, fault) ==
    LET subsource == row.SUBSOURCE
        relationship_exists ==
            given /\ ~CheckRaises(fault, i) /\ check_relationship(source, row.OBJECTID)
    IN IF subsource = PyInt(1) THEN Write([row EXCEPT !.MIG_ISSOURCE = PyInt(2)])
       ELSE IF relationship_exists THEN Write([row EXCEPT !.MIG_ISSOURCE = PyInt(1)])
       ELSE Write(row)

IsSourceRow(row, i, given, source, fault) ==
    LET subsource == row.SUBSOURCE
        relationship_exists ==
            given /\ ~CheckRaises(fault, i) /\ check_relationship(source, row.OBJECTID)
    IN IF relationship_exists THEN Write([row EXCEPT !.MIG_ISSOURCE = PyInt(1)])
       ELSE IF subsource = PyInt(1) THEN Write([row EXCEPT !.MIG_ISSOURCE = PyInt(2)])
       ELSE Write(row)

IsSourceFaults(n) ==
    EditorFaults(n) \cup [site : {"check"}, row : 0..n, handler : {FALSE}]

BG_IsSource(rows, given, source, fault) ==
    LET plan == [i \in DOMAIN rows |-> IsSourceRow(rows[i], i, given, source, fault)]
        s0 == startOperation(startEditing(Session(rows)))
        body == UpdateCursor(rows, plan, fault)
        \* the log after row i: a check_relationship that raises, and the
        \* warning the inner except clause prints the first time
        checks[i \in 0..body.last] ==
            IF i = 0 THEN s0.log
            ELSE IF ~(given /\ CheckRaises(fault, i)) THEN checks[i - 1]
            ELSE IF \E j \in 1..(i - 1) : CheckRaises(fault, j)
                 THEN Append(checks[i - 1], <<"raise", "CheckError">>)
                 ELSE checks[i - 1] \o << <<"raise", "CheckError">>,
                                          <<"print", "Could not check relationship">> >>
        s1 == [s0 EXCEPT !.rows = body.rows, !.log = checks[body.last]]
        done == TryCommit(s1, body.exc, fault)
    IN [s |-> done.s, exc |-> done.exc, fields |-> SwitchFields]

InitIsSource ==
    /\ op = "issource"
    /\ \E rows \in SeqsUpTo([SUBSOURCE : {PyInt(0), PyInt(1)}, MIG_ISSOURCE : {PyInt(0)}],
                            MaxSwitches) :
          /\ fc = [fields |-> SwitchFields, rows |-> WithObjectIds(rows)]
          /\ env \in [given : BOOLEAN,
                      source : SeqsUpTo({NULL} \cup {PyInt(i) : i \in 1..MaxSwitches},
                                        MaxSources)]

(***************************************************************************)
(* Faults of the functions that run several edit sessions: `layer` is the  *)
(* number of the session (the layer of mapping_layers, the update_field    *)
(* call) in which the library call raises; "join" is its SpatialJoin.      *)
(***************************************************************************)
NoLayerFault == [layer |-> 0, site |-> "none", row |-> 0, handler |-> FALSE]

LayerFaults(layers, n, sessions) ==
    {NoLayerFault}
      \cup [layer : 1..layers, site : {"join", "read"}, row : {0}, handler : {FALSE}]
      \cup [layer : 1..layers, site : {"fetch", "update"}, row : 1..n, handler : {FALSE}]
      \cup IF sessions
           THEN [layer : 1..layers, site : {"stopOperation", "stopEditing"}, row : {0},
                 handler : {FALSE}]
                  \cup [layer : 1..layers, site : {"update"}, row : 1..n, handler : {TRUE}]
           ELSE {}

\* the fault as session k sees it
FaultIn(fault, k) == IF fault.layer = k THEN fault ELSE NoLayerFault

(***************************************************************************)
(* update_field_based_on_whether_it_lies                                   *)
(***************************************************************************)
\* mapping_layers of main(): join layer -> value of MIG_PARENTTYPE
LayerItems ==
    {<<"Busbar", "Busbar">>, <<"Conductor", "Conductor">>,
     <<"InternalConnection", "Internal Connection">>}

\* a dict: no two items with one key, iterated in insertion order
MappingLayers ==
    {m \in SeqsUpTo(LayerItems, MaxLayers) :
        \A i, j \in DOMAIN m : m[i][1] = m[j][1] => i = j}

\* SpatialJoin(target_fc, join_fc, JOIN_ONE_TO_ONE, KEEP_COMMON, INTERSECT):
\* the TARGET_FID of every target row that intersects a feature of join_fc;
\* row.intersects holds the layers the row intersects
TempJoin(rows, join_fc) ==
    {rows[i].OBJECTID : i \in {j \in DOMAIN rows : join_fc \in rows[j].intersects}}

\* FeaturesToUpdate without `if row[0] not in updated_features`
FeaturesToUpdate_All(temp_join, updated_features) == temp_join

\* features_to_update: the TARGET_FIDs of the join output that no earlier
\* layer has written
FeaturesToUpdate(temp_join, updated_features) == temp_join \ updated_features

\* one iteration of the loop over mapping_layers.  st: the rows, the set
\* updated_features, the editor and the log as the iterations before left
\* them, and the exception that ended the call ("none" if none yet).
\* sessions: BG, which edits inside an edit session; ROM does not.
LiesLayer(st, k, item, fault, sessions) ==
    LET f == FaultIn(fault, k)
        rows == st.rows
        features_to_update == FeaturesToUpdate(TempJoin(rows, item[1]), st.updated)
        plan == [i \in DOMAIN rows |->
                    IF rows[i].OBJECTID \in features_to_update
                    THEN Write([rows[i] EXCEPT !.MIG_PARENTTYPE = item[2]])
                    ELSE Keep(rows[i])]
        body == IF f.site = "read"
                THEN [rows |-> rows, exc |-> "ReadError", last |-> 0]
                ELSE UpdateCursor(rows, plan, f)
        s0 == startOperation(startEditing([Session(rows) EXCEPT !.log = st.log]))
        done == IF sessions
                THEN TryCommit([s0 EXCEPT !.rows = body.rows], body.exc, f)
                ELSE Unedited(body.rows, st.log, body.exc)
        \* finally: print(... {local_count} ...), which the first iteration
        \* binds only after it has read the join output
        unbound == sessions /\ k = 1 /\ f.site = "read"
    IN IF st.exc # "none" THEN st
       ELSE IF f.site = "join"
            THEN [st EXCEPT !.exc = "JoinError",
                            !.log = Append(st.log, <<"raise", "JoinError">>)]
       ELSE [rows |-> done.s.rows,
             updated |-> st.updated \cup features_to_update,
             editing |-> done.s.editing, inOp |-> done.s.inOp,
             log |-> IF unbound THEN Append(done.s.log, <<"raise", "NameError">>)
                     ELSE done.s.log,
             exc |-> IF unbound THEN "NameError" ELSE done.exc]

Lies(rows, mapping_layers, fault, sessions) ==
    LET st[k \in 0..Len(mapping_layers)] ==
            IF k = 0
            THEN [rows |-> rows, updated |-> {}, editing |-> FALSE, inOp |-> FALSE,
                  log |-> <<>>, exc |-> "none"]
            ELSE LiesLayer(st[k - 1], k, mapping_layers[k], fault, sessions)
        end == st[Len(mapping_layers)]
    IN [s |-> [rows |-> end.rows, editing |-> end.editing, inOp |-> end.inOp,
               log |-> end.log],
        exc |-> end.exc, fields |-> JunctionFields]

InitLies ==
    /\ op = "lies"
    /\ env \in [mapping_layers : MappingLayers]
    /\ \E rows \in SeqsUpTo([MIG_PARENTTYPE : {"old"},
                             intersects : SUBSET {item[1] : item \in LayerItems}],
                            MaxFeatures) :
          fc = [fields |-> JunctionFields, rows |-> WithObjectIds(rows)]

(***************************************************************************)
(* update_mig_voltage                                                      *)
(***************************************************************************)
\* the update_field calls in the order busbar, conductor, internal
VoltageLayers_BusbarFirst == <<"busbar", "conductor", "internal">>

\* the join layers in the order of the update_field calls
VoltageLayers == <<"internal", "conductor", "busbar">>

\* `if key and voltage`
Truthy(value) == value \notin {NULL, "", PyInt(0)}

\* SpatialJoin(dest_fc, layer, JOIN_ONE_TO_ONE, KEEP_COMMON, INTERSECT): one
\* row (TARGET_FID, OPERATINGVOLTAGE) per destination row that intersects
\* the layer; row[layer] is that voltage, "absent" if it intersects none
JoinLayer(rows, layer) ==
    {<<rows[i].OBJECTID, rows[i][layer]>> :
        i \in {j \in DOMAIN rows : rows[j][layer] # "absent"}}

\* origin_fc_dict of update_field
VoltageDict(join) ==
    [key \in {r[1] : r \in {q \in join : Truthy(q[1]) /\ Truthy(q[2])}} |->
        (CHOOSE r \in join : r[1] = key /\ Truthy(r[2]))[2]]

VoltagePlan(rows, dict) ==
    [i \in DOMAIN rows |->
        IF rows[i].OBJECTID \in DOMAIN dict
        THEN Write([rows[i] EXCEPT !.MIG_VOLTAGE = dict[rows[i].OBJECTID]])
        ELSE Keep(rows[i])]

\* BG update_field: try / except / else / finally.  The else clause stops the
\* operation and the session; what it raises no except clause catches.
TryElse(s, exc, fault) ==
    IF exc # "none" THEN ExceptHandler(Raise(s, exc), exc, fault)
    ELSE LET a == stopOperation(s, fault.site = "stopOperation") IN
         IF fault.site = "stopOperation"
         THEN [s |-> Raise(a, "StopOperationError"), exc |-> "StopOperationError"]
         ELSE LET b == stopEditing(a, TRUE, fault.site = "stopEditing") IN
              IF fault.site = "stopEditing"
              THEN [s |-> Raise(b, "StopEditingError"), exc |-> "StopEditingError"]
              ELSE [s |-> b, exc |-> "none"]

\* one update_field call, if the layer is supplied
update_field(st, k, supplied, fault, sessions) ==
    LET f == FaultIn(fault, k)
        rows == st.rows
        plan == VoltagePlan(rows, VoltageDict(JoinLayer(rows, VoltageLayers[k])))
        body == IF f.site = "read"
                THEN [rows |-> rows, exc |-> "ReadError", last |-> 0]
                ELSE UpdateCursor(rows, plan, f)
        s0 == startOperation(startEditing([Session(rows) EXCEPT !.log = st.log]))
        done == IF sessions
                THEN TryElse([s0 EXCEPT !.rows = body.rows], body.exc, f)
                ELSE Unedited(body.rows, st.log, body.exc)
    IN IF st.exc # "none" \/ VoltageLayers[k] \notin supplied THEN st
       ELSE [rows |-> done.s.rows, editing |-> done.s.editing, inOp |-> done.s.inOp,
             log |-> done.s.log, exc |-> done.exc]

\* the joins, all before the first update_field, then the three calls
MigVoltage(rows, supplied, fault, sessions) ==
    LET joinFails == fault.site = "join" /\ VoltageLayers[fault.layer] \in supplied
        st[k \in 0..Len(VoltageLayers)] ==
            IF k = 0
            THEN [rows |-> rows, editing |-> FALSE, inOp |-> FALSE,
                  log |-> IF joinFails THEN << <<"raise", "JoinError">> >> ELSE <<>>,
                  exc |-> IF joinFails THEN "JoinError" ELSE "none"]
            ELSE update_field(st[k - 1], k, supplied, fault, sessions)
        end == st[Len(VoltageLayers)]
    IN [s |-> [rows |-> end.rows, editing |-> end.editing, inOp |-> end.inOp,
               log |-> end.log],
        exc |-> end.exc, fields |-> ConnectorFields]

\* the layers main() and its variants supply (a path, or "" for none)
Supplied ==
    {Range(VoltageLayers), {"conductor", "busbar"}, {"internal", "conductor"}, {"internal"}}

InitVoltage ==
    /\ op = "voltage"
    /\ \E empty \in {NULL, ""} :
          \E rows \in SeqsUpTo([MIG_VOLTAGE : {"old"},
                                internal : {"absent", empty, "0.4 kV"},
                                conductor : {"absent", empty, "20 kV"},
                                busbar : {"absent", empty, "110 kV"}], MaxConnectors) :
             fc = [fields |-> ConnectorFields, rows |-> WithObjectIds(rows)]
    /\ env \in [supplied : Supplied]

(***************************************************************************)
(* main(): the calls in program order.  A step is the line of the call,    *)
(* the function called, the fields "Class.FIELD" it reads of the classes   *)
(* it does not write, or reads before it writes them, and the fields it    *)
(* writes.                                                                 *)
(***************************************************************************)
Step(line, function, reads, writes) ==
    [line |-> line, function |-> function, reads |-> reads, writes |-> writes]

Qualified(class, fields) == {class \o "." \o f : f \in fields}

\* update_fc_from_dict(source_fc, destination_fc, source_key_field, ...,
\* field_pairs, ...): reads the key and the source fields of the source,
\* writes the destination fields of the destination
FromDictStep(line, source_fc, destination_fc, source_key_field, field_pairs) ==
    Step(line, "update_fc_from_dict",
         Qualified(source_fc, {source_key_field} \cup {pair[1] : pair \in field_pairs}),
         Qualified(destination_fc, {pair[2] : pair \in field_pairs}))

SelfStep(line, class) ==
    Step(line, "update_fc_self", Qualified(class, {"OBJECTID", "GLOBALID"}),
         Qualified(class, {"MIG_OID", "MIG_OID_TEXT", "MIG_GLOBALID"}))

WithinStep(line, class) ==
    Step(line, "update_fc_within", Qualified("StationScheme", {"SHAPE"}),
         Qualified(class, {"MIG_PARENTTYPE"}))

BoundaryStep(line, function, class) ==
    Step(line, function, Qualified("StationBoundary", {"GLOBALID", "SHAPE"}),
         Qualified(class, {"MIG_STATIONGUID"}))

LiesStep(line, class) ==
    Step(line, "update_field_based_on_whether_it_lies",
         Qualified("Busbar", {"SHAPE"}) \cup Qualified("Conductor", {"SHAPE"})
            \cup Qualified("InternalConnection", {"SHAPE"}),
         Qualified(class, {"MIG_PARENTTYPE"}))

ConductorTypeStep(line, class) ==
    Step(line, "update_conductor_type",
         Qualified(class, {"MIG_PARENTTYPE"}) \cup Qualified("Conductor", {"SUBTYPE_CD"}),
         Qualified(class, {"MIG_PARENTTYPE"}))

VoltageStep(line, class, layers) ==
    Step(line, "update_mig_voltage",
         UNION {Qualified(layer, {"OPERATINGVOLTAGE"}) : layer \in layers},
         Qualified(class, {"MIG_VOLTAGE"}))

IsSourceStep(line, class, columns) ==
    Step(line, "update_mig_issource",
         Qualified(class, {"SUBSOURCE"}) \cup Qualified("CircuitSource", columns),
         Qualified(class, {"MIG_ISSOURCE"}))

\* main() of BG_Utility_Geodatabase.py
BG_main ==
    << FromDictStep(492, "SwitchingFacility", "Bay", "OBJECTID", {<<"STATION_OID", "MIG_STATIONGUID">>, <<"OPERATINGVOLTAGE", "MIG_VOLTAGE">>}),
       FromDictStep(499, "Bay", "BayScheme", "OBJECTID", {<<"MIG_STATIONGUID", "MIG_STATIONGUID">>}),
       WithinStep(503, "BayScheme"),
       SelfStep(509, "CircuitSource"),
       SelfStep(515, "CircuitSourceID"),
       BoundaryStep(523, "update_point_fc_within_station_boundary", "Electric_Net_Junctions"),
       LiesStep(533, "Electric_Net_Junctions"),
       ConductorTypeStep(534, "Electric_Net_Junctions"),
       VoltageStep(540, "Electric_Net_Junctions", {"InternalConnection", "Conductor", "Busbar"}),
       FromDictStep(548, "SwitchingFacility", "Busbar", "OBJECTID", {<<"STATION_OID", "MIG_STATIONGUID">>}),
       WithinStep(552, "Busbar"),
       IsSourceStep(560, "CircuitBreaker", {"CIRCUITBREAKER_OID"}),
       FromDictStep(565, "CircuitSource", "CircuitBreaker", "MIG_OID", {<<"FEEDERID", "MIG_FEEDERID">>}),
       FromDictStep(570, "CircuitSourceID", "CircuitBreaker", "MIG_OID", {<<"FEEDERNAME", "MIG_FEEDERNAME">>}),
       FromDictStep(577, "SwitchingFacility", "CircuitBreaker", "OBJECTID", {<<"STATION_OID", "MIG_STATIONGUID">>}),
       IsSourceStep(585, "Disconnector", {"DISCONNECTOR_OID"}),
       FromDictStep(591, "CircuitSource", "Disconnector", "MIG_OID", {<<"FEEDERID", "MIG_FEEDERID">>}),
       FromDictStep(597, "CircuitSourceID", "Disconnector", "MIG_OID", {<<"FEEDERNAME", "MIG_FEEDERNAME">>}),
       FromDictStep(604, "SwitchingFacility", "Disconnector", "OBJECTID", {<<"STATION_OID", "MIG_STATIONGUID">>}),
       VoltageStep(612, "FaultIndicator", {"Conductor"}),
       BoundaryStep(618, "update_line_fc_within_station_boundary", "FaultIndicator"),
       FromDictStep(631, "CircuitSource", "Fuse", "MIG_OID", {<<"FEEDERID", "MIG_FEEDERID">>}),
       FromDictStep(639, "CircuitSourceID", "Fuse", "MIG_OID", {<<"FEEDERNAME", "MIG_FEEDERNAME">>}),
       FromDictStep(646, "SwitchingFacility", "Fuse", "OBJECTID", {<<"STATION_OID", "MIG_STATIONGUID">>}),
       BoundaryStep(654, "update_line_fc_within_station_boundary", "InternalConnection"),
       IsSourceStep(661, "LoadBreakSwitch", {"LOADBREAKSWTICH_OID"}),
       FromDictStep(666, "CircuitSource", "LoadBreakSwitch", "MIG_OID", {<<"FEEDERID", "MIG_FEEDERID">>}),
       FromDictStep(671, "CircuitSourceID", "LoadBreakSwitch", "MIG_OID", {<<"FEEDERNAME", "MIG_FEEDERNAME">>}),
       FromDictStep(678, "SwitchingFacility", "LoadBreakSwitch", "OBJECTID", {<<"STATION_OID", "MIG_STATIONGUID">>}),
       BoundaryStep(685, "update_point_fc_within_station_boundary", "MeasurementTransformer"),
       FromDictStep(694, "Station", "StationEquipment", "OBJECTID", {<<"OPERATINGVOLTAGE", "MIG_VOLTAGE">>}),
       FromDictStep(701, "Station", "Transformer", "OBJECTID", {<<"OBJECTID", "MIG_STATIONGUID">>}),
       FromDictStep(708, "Transformer", "TransformerUnit", "OBJECTID", {<<"STATION_OID", "MIG_STATIONGUID">>}) >>

\* main() of ROM_Utility_Geodatabase.py
ROM_main ==
    << FromDictStep(318, "SwitchingFacility", "Bay", "GLOBALID", {<<"STATION_GUID", "MIG_STATIONGUID">>, <<"OPERATINGVOLTAGE", "MIG_VOLTAGE">>}),
       FromDictStep(325, "Bay", "BayScheme", "GLOBALID", {<<"MIG_STATIONGUID", "MIG_STATIONGUID">>}),
       WithinStep(329, "BayScheme"),
       SelfStep(335, "CircuitSource"),
       SelfStep(341, "CircuitSourceID"),
       BoundaryStep(347, "update_point_fc_within_station_boundary", "Electric_Net_Junctions"),
       LiesStep(356, "Electric_Net_Junctions"),
       VoltageStep(362, "Electric_Net_Junctions", {"InternalConnection", "Conductor", "Busbar"}),
       BoundaryStep(367, "update_point_fc_within_station_boundary", "Connector"),
       LiesStep(371, "Connector"),
       VoltageStep(374, "Connector", {"InternalConnection", "Conductor", "Busbar"}),
       FromDictStep(381, "SwitchingFacility", "Busbar", "GLOBALID", {<<"STATION_GUID", "MIG_STATIONGUID">>}),
       WithinStep(385, "Busbar"),
       BoundaryStep(390, "update_point_fc_within_station_boundary", "CableHead"),
       FromDictStep(395, "Conductor", "CableHead", "GLOBALID", {<<"OPERATINGVOLTAGE", "MIG_VOLTAGE">>}),
       IsSourceStep(400, "CircuitBreaker", {}),
       FromDictStep(405, "CircuitSource", "CircuitBreaker", "MIG_OID", {<<"FEEDERID", "MIG_FEEDERID">>}),
       FromDictStep(410, "CircuitSourceID", "CircuitBreaker", "MIG_OID", {<<"FEEDERNAME", "MIG_FEEDERNAME">>}),
       FromDictStep(417, "Bay", "CircuitBreaker", "GLOBALID", {<<"MIG_STATIONGUID", "MIG_STATIONGUID">>}),
       IsSourceStep(424, "Disconnector", {"DISCONNECTOR_GUID"}),
       FromDictStep(430, "CircuitSource", "Disconnector", "MIG_OID", {<<"FEEDERID", "MIG_FEEDERID">>}),
       FromDictStep(436, "CircuitSourceID", "Disconnector", "MIG_OID", {<<"FEEDERNAME", "MIG_FEEDERNAME">>}),
       FromDictStep(444, "Bay", "Disconnector", "GLOBALID", {<<"MIG_STATIONGUID", "MIG_STATIONGUID">>}),
       IsSourceStep(465, "Fuse", {"FUSE_GUID"}),
       FromDictStep(471, "CircuitSource", "Fuse", "MIG_OID", {<<"FEEDERID", "MIG_FEEDERID">>}),
       FromDictStep(479, "CircuitSourceID", "Fuse", "MIG_OID", {<<"FEEDERNAME", "MIG_FEEDERNAME">>}),
       FromDictStep(488, "Bay", "Fuse", "GLOBALID", {<<"MIG_STATIONGUID", "MIG_STATIONGUID">>}),
       BoundaryStep(499, "update_line_fc_within_station_boundary", "InternalConnection"),
       IsSourceStep(505, "LoadBreakSwitch", {"LOADBREAKSWTICH_GUID"}),
       FromDictStep(510, "CircuitSource", "LoadBreakSwitch", "MIG_OID", {<<"FEEDERID", "MIG_FEEDERID">>}),
       FromDictStep(515, "CircuitSourceID", "LoadBreakSwitch", "MIG_OID", {<<"FEEDERNAME", "MIG_FEEDERNAME">>}),
       FromDictStep(522, "Bay", "LoadBreakSwitch", "GLOBALID", {<<"MIG_STATIONGUID", "MIG_STATIONGUID">>}),
       BoundaryStep(528, "update_point_fc_within_station_boundary", "MeasurementTransformer"),
       FromDictStep(536, "Pole", "PoleEquipment", "GLOBALID", {<<"NOMINALVOLTAGE", "MIG_VOLTAGE">>}),
       FromDictStep(545, "Station", "StationEquipment", "GLOBALID", {<<"OPERATINGVOLTAGE", "MIG_VOLTAGE">>}),
       FromDictStep(558, "Bay", "Transformer", "GLOBALID", {<<"MIG_STATIONGUID", "MIG_STATIONGUID">>}),
       FromDictStep(571, "Transformer", "TransformerUnit", "GLOBALID", {<<"MIG_STATIONGUID", "MIG_STATIONGUID">>}) >>

MainSteps(script) == IF script = "BG" THEN BG_main ELSE ROM_main

\* StepAt with the calls of main() in the reverse order
StepAt_Reversed(steps, i) == steps[Len(steps) + 1 - i]

\* the i-th call of main()
StepAt(steps, i) == steps[i]

InitMain ==
    /\ op = "main"
    /\ env \in [script : {"BG", "ROM"}]
    /\ fc = [fields |-> {}, rows |-> <<>>]

(***************************************************************************)
(* The call: its effect on the state.                                      *)
(***************************************************************************)
Return(name, r) ==
    /\ fn' = name
    /\ fc' = [fields |-> r.fields, rows |-> r.s.rows]
    /\ edit' = [editing |-> r.s.editing, inOp |-> r.s.inOp]
    /\ ret' = IF r.exc = "none" THEN "ok" ELSE r.exc
    /\ log' = r.s.log
    /\ UNCHANGED <<op, env, fc0, out, pc>>

BG_update_fc_from_dict ==
    /\ fn = "" /\ op = "from_dict"
    /\ \E fault \in EditorFaults(Len(fc.rows)) :
          Return("BG_update_fc_from_dict",
                 BG_FromDict(env.source, fc.rows, env.field_pairs, fault))

ROM_update_fc_from_dict ==
    /\ fn = "" /\ op = "from_dict"
    /\ \E fault \in CursorFaults(Len(fc.rows)) :
          Return("ROM_update_fc_from_dict",
                 ROM_FromDict(env.source, fc.rows, env.field_pairs, fault))

BG_update_line_fc_within_station_boundary ==
    /\ fn = "" /\ op = "spatial" /\ env.kind = "line"
    /\ \E fault \in EditorFaults(Len(fc.rows)) :
          Return("BG_update_line_fc_within_station_boundary",
                 BG_Boundary("line", env.stations, fc, fault))

ROM_update_line_fc_within_station_boundary ==
    /\ fn = "" /\ op = "spatial" /\ env.kind = "line"
    /\ \E fault \in CursorFaults(Len(fc.rows)) :
          Return("ROM_update_line_fc_within_station_boundary",
                 ROM_Boundary("line", env.stations, fc, fault))

BG_update_point_fc_within_station_boundary ==
    /\ fn = "" /\ op = "spatial" /\ env.kind = "point"
    /\ \E fault \in EditorFaults(Len(fc.rows)) :
          Return("BG_update_point_fc_within_station_boundary",
                 BG_Boundary("point", env.stations, fc, fault))

ROM_update_point_fc_within_station_boundary ==
    /\ fn = "" /\ op = "spatial" /\ env.kind = "point"
    /\ \E fault \in CursorFaults(Len(fc.rows)) :
          Return("ROM_update_point_fc_within_station_boundary",
                 ROM_Boundary("point", env.stations, fc, fault))

BG_update_fc_within ==
    /\ fn = "" /\ op = "spatial" /\ env.kind = "polygon"
    /\ \E fault \in EditorFaults(Len(fc.rows)) :
          Return("BG_update_fc_within", BG_Within(env.stations, fc, fault))

ROM_update_fc_within ==
    /\ fn = "" /\ op = "spatial" /\ env.kind = "polygon"
    /\ \E fault \in CursorFaults(Len(fc.rows)) :
          Return("ROM_update_fc_within", ROM_Within(env.stations, fc, fault))

BG_update_fc_self ==
    /\ fn = "" /\ op = "self"
    /\ \E fault \in EditorFaults(Len(fc.rows)) :
          Return("BG_update_fc_self", BG_Self(fc.rows, env.field_updates, TRUE, fault))

ROM_update_fc_self ==
    /\ fn = "" /\ op = "self"
    /\ \E fault \in CursorFaults(Len(fc.rows)) \ {[NoFault EXCEPT !.site = "read"]} :
          Return("ROM_update_fc_self", ROM_Self(fc.rows, env.field_updates, fault))

DB_update_fc_self ==
    /\ fn = "" /\ op = "self"
    /\ \E fault \in EditorFaults(Len(fc.rows)) :
          Return("DB_update_fc_self", BG_Self(fc.rows, env.field_updates, FALSE, fault))

BG_update_conductor_type ==
    /\ fn = "" /\ op = "conductor"
    /\ \E fault \in EditorFaults(Len(fc.rows)) :
          Return("BG_update_conductor_type", BG_ConductorType(fc.rows, fault))

BG_classify_junction ==
    /\ fn = "" /\ op = "classify"
    /\ fn' = "classify_junction"
    /\ out' = classify_junction(env.subtypes, overhead_types, underground_types)
    /\ ret' = "ok"
    /\ UNCHANGED <<op, env, fc, fc0, edit, log, pc>>

BG_update_mig_issource ==
    /\ fn = "" /\ op = "issource"
    /\ \E fault \in IsSourceFaults(Len(fc.rows)) :
          Return("BG_update_mig_issource",
                 BG_IsSource(fc.rows, env.given, env.source, fault))

BG_update_field_based_on_whether_it_lies ==
    /\ fn = "" /\ op = "lies"
    /\ \E fault \in LayerFaults(Len(env.mapping_layers), Len(fc.rows), TRUE) :
          Return("BG_update_field_based_on_whether_it_lies",
                 Lies(fc.rows, env.mapping_layers, fault, TRUE))

ROM_update_field_based_on_whether_it_lies ==
    /\ fn = "" /\ op = "lies"
    /\ \E fault \in LayerFaults(Len(env.mapping_layers), Len(fc.rows), FALSE) :
          Return("ROM_update_field_based_on_whether_it_lies",
                 Lies(fc.rows, env.mapping_layers, fault, FALSE))

BG_update_mig_voltage ==
    /\ fn = "" /\ op = "voltage"
    /\ \E fault \in LayerFaults(Len(VoltageLayers), Len(fc.rows), TRUE) :
          Return("BG_update_mig_voltage", MigVoltage(fc.rows, env.supplied, fault, TRUE))

\* ROM takes the three layers, none optional
ROM_update_mig_voltage ==
    /\ fn = "" /\ op = "voltage" /\ env.supplied = Range(VoltageLayers)
    /\ \E fault \in LayerFaults(Len(VoltageLayers), Len(fc.rows), FALSE) :
          Return("ROM_update_mig_voltage", MigVoltage(fc.rows, env.supplied, fault, FALSE))

\* one call of main(): the next step runs, and returns or raises; main()
\* catches nothing, so a step that raises ends it.  fc.fields collects the
\* fields the steps so far have written.
main ==
    /\ op = "main" /\ ret = ""
    /\ pc < Len(MainSteps(env.script))
    /\ LET step == StepAt(MainSteps(env.script), pc + 1) IN
       \E raises \in BOOLEAN :
          /\ fn' = env.script \o "_main"
          /\ pc' = pc + 1
          /\ log' = Append(log, <<step.function, ToString(step.line)>>)
          /\ fc' = [fc EXCEPT !.fields = IF raises THEN @ ELSE @ \cup step.writes]
          /\ ret' = IF raises THEN "Exception"
                    ELSE IF pc + 1 = Len(MainSteps(env.script)) THEN "ok" ELSE ""
          /\ UNCHANGED <<op, env, fc0, edit, out>>

Init ==
    /\ \/ InitFromDict
       \/ InitLies
       \/ InitVoltage
       \/ InitSpatial
       \/ InitSelf
       \/ InitConductor
       \/ InitClassify
       \/ InitIsSource
       \/ InitMain
    /\ fc0 = fc
    /\ edit = [editing |-> FALSE, inOp |-> FALSE]
    /\ fn = ""
    /\ ret = ""
    /\ out = NULL
    /\ log = <<>>
    /\ pc = 0

Next ==
    \/ BG_update_fc_from_dict
    \/ ROM_update_fc_from_dict
    \/ BG_update_line_fc_within_station_boundary
    \/ ROM_update_line_fc_within_station_boundary
    \/ BG_update_point_fc_within_station_boundary
    \/ ROM_update_point_fc_within_station_boundary
    \/ BG_update_fc_within
    \/ ROM_update_fc_within
    \/ BG_update_fc_self
    \/ ROM_update_fc_self
    \/ DB_update_fc_self
    \/ BG_update_conductor_type
    \/ BG_classify_junction
    \/ BG_update_mig_issource
    \/ BG_update_field_based_on_whether_it_lies
    \/ ROM_update_field_based_on_whether_it_lies
    \/ BG_update_mig_voltage
    \/ ROM_update_mig_voltage
    \/ main

Spec == Init /\ [][Next]_vars

(***************************************************************************)
(* Claims                                                                  *)
(***************************************************************************)
Returned(names) == fn \in names /\ ret = "ok"

\* C1: after a successful update_fc_from_dict (BG or ROM), every destination
\* row selected by where_clause whose key is the key of some source row
\* holds, in the destination field of every pair of field_pairs, the source
\* field of one source row with that key; every selected row whose key is
\* the key of no source row is as it was before the call.
C1_CopyOnKeyMatchElseSkip ==
    Returned({"BG_update_fc_from_dict", "ROM_update_fc_from_dict"}) =>
        \A i \in DOMAIN fc0.rows :
            fc0.rows[i].sel =>
                LET matching == {j \in DOMAIN env.source :
                                    env.source[j].key = fc0.rows[i].key}
                IN IF matching = {} THEN fc.rows[i] = fc0.rows[i]
                   ELSE \E j \in matching :
                          \A p \in DOMAIN env.field_pairs :
                              fc.rows[i][env.field_pairs[p][2]]
                                  = env.source[j][env.field_pairs[p][1]]

\* a successful BG call that copied two fields into one selected row and
\* skipped another selected row whose key the source does not hold
C1_Witness ==
    /\ Returned({"BG_update_fc_from_dict"})
    /\ Len(env.field_pairs) = 2
    /\ \E i, j \in DOMAIN fc.rows :
          /\ fc0.rows[i].sel /\ fc0.rows[j].sel
          /\ fc.rows[i].X # fc0.rows[i].X /\ fc.rows[i].Y # fc0.rows[i].Y
          /\ \A k \in DOMAIN env.source : env.source[k].key # fc0.rows[j].key

LogHas(entry) == \E i \in DOMAIN log : log[i] = entry

\* the row-writing functions of BG_Utility_Geodatabase.py that C2 names
RowWriters ==
    {"BG_update_fc_from_dict", "BG_update_fc_within", "BG_update_fc_self",
     "BG_update_line_fc_within_station_boundary",
     "BG_update_point_fc_within_station_boundary",
     "BG_update_conductor_type", "BG_update_mig_issource"}

\* where in the log an exception is raised after startOperation and before
\* the session is ended, by the commit stopEditing(True) or otherwise
RaisedInSession ==
    {j \in DOMAIN log :
        /\ log[j][1] = "raise"
        /\ \E i \in 1..(j - 1) : log[i][1] = "startOperation"
        /\ \A i \in 1..(j - 1) : log[i][1] # "stopEditing"}

BoundaryFunctions(kind) ==
    IF kind = "line"
    THEN {"BG_update_line_fc_within_station_boundary",
          "ROM_update_line_fc_within_station_boundary"}
    ELSE {"BG_update_point_fc_within_station_boundary",
          "ROM_update_point_fc_within_station_boundary"}

\* the stations with a polygon
WithPolygon == {j \in DOMAIN env.stations : env.stations[j] # NULL}

\* C3 as claimed: after update_line_fc_within_station_boundary, a line with
\* non-null geometry that is within at least one non-null station polygon is
\* classified 'Inside', and one that is within none but not disjoint from at
\* least one is classified 'Partly Inside', whatever the order of the stations.
C3_LineInsideIfWithinAny ==
    (Returned(BoundaryFunctions("line")) /\ "status" \in fc.fields) =>
        \A i \in DOMAIN fc.rows :
            fc0.rows[i].SHAPE # NULL =>
                LET rel == fc0.rows[i].rel
                    inSome == \E j \in WithPolygon : within(rel[j])
                    meetsSome == \E j \in WithPolygon : ~disjoint(rel[j])
                IN /\ inSome => fc.rows[i].status = "Inside"
                   /\ (~inSome /\ meetsSome) => fc.rows[i].status = "Partly Inside"

\* C4 as claimed: after update_point_fc_within_station_boundary, a point with
\* non-null geometry that is within at least one non-null station polygon is
\* classified 'Inside', and one that is within none but touches at least one
\* is classified 'On Boundary', whatever the order of the stations.
C4_PointInsideIfWithinAny ==
    (Returned(BoundaryFunctions("point")) /\ "status" \in fc.fields) =>
        \A i \in DOMAIN fc.rows :
            fc0.rows[i].SHAPE # NULL =>
                LET rel == fc0.rows[i].rel
                    inSome == \E j \in WithPolygon : within(rel[j])
                    touchesSome == \E j \in WithPolygon : touches(rel[j])
                IN /\ inSome => fc.rows[i].status = "Inside"
                   /\ (~inSome /\ touchesSome) => fc.rows[i].status = "On Boundary"

\* C5: after either boundary function, a row with non-null geometry is
\* classified 'Outside' exactly when no non-null station polygon passes either
\* test for it (within / not disjoint for a line, within / touches for a
\* point), and then its station GUID is null whatever it was; a row
\* classified 'Inside' holds the id of a station it is within, a row
\* classified 'Partly Inside' / 'On Boundary' the id of a station that passes
\* the second test.
C5_OutsideAndStationGuid ==
    Returned(BoundaryFunctions("line") \cup BoundaryFunctions("point")) =>
        \A i \in DOMAIN fc.rows :
            fc0.rows[i].SHAPE # NULL =>
                LET rel == fc0.rows[i].rel
                    row == fc.rows[i]
                    second(j) == IF env.kind = "line" THEN ~disjoint(rel[j])
                                 ELSE touches(rel[j])
                    passing == {j \in WithPolygon : within(rel[j]) \/ second(j)}
                    partly == IF env.kind = "line" THEN "Partly Inside" ELSE "On Boundary"
                IN /\ passing = {} <=> row.MIG_STATIONGUID = NULL
                   /\ passing # {} => \E j \in passing : row.MIG_STATIONGUID = GlobalId(j)
                   /\ "status" \in fc.fields =>
                         /\ row.status \in {"Inside", partly, "Outside"}
                         /\ row.status = "Outside" <=> passing = {}
                         /\ row.status = "Inside" =>
                               \E j \in WithPolygon :
                                   within(rel[j]) /\ row.MIG_STATIONGUID = GlobalId(j)
                         /\ row.status = partly =>
                               \E j \in WithPolygon :
                                   second(j) /\ row.MIG_STATIONGUID = GlobalId(j)

\* a line beside two station polygons, disjoint from both: 'Outside', and
\* the station GUID it held is gone
C5_Witness ==
    /\ Returned({"BG_update_line_fc_within_station_boundary"})
    /\ "status" \in fc.fields
    /\ Cardinality(WithPolygon) = 2
    /\ \E i \in DOMAIN fc.rows :
          /\ fc0.rows[i].SHAPE # NULL
          /\ fc0.rows[i].MIG_STATIONGUID # NULL
          /\ fc.rows[i].status = "Outside"
          /\ fc.rows[i].MIG_STATIONGUID = NULL

Classifications(kind) ==
    {"Inside", IF kind = "line" THEN "Partly Inside" ELSE "On Boundary", "Outside"}

\* C6 as claimed: after either boundary function returns normally, the class
\* has the status field and every row with non-null geometry holds its
\* classification in it, whether or not the field existed before the call.
C6_StatusFieldDerived ==
    Returned(BoundaryFunctions("line") \cup BoundaryFunctions("point")) =>
        /\ "status" \in fc.fields
        /\ \A i \in DOMAIN fc.rows :
              fc0.rows[i].SHAPE # NULL => fc.rows[i].status \in Classifications(env.kind)

\* C6 as amended: after either boundary function returns normally, the class
\* has the status field exactly when it had it before the call; if it has,
\* every row with non-null geometry holds its classification in it; if it
\* has not, the call added the field and deleted it again, and no row holds
\* a classification.
C6_StatusFieldKeptOnlyIfItExisted ==
    Returned(BoundaryFunctions("line") \cup BoundaryFunctions("point")) =>
        /\ "status" \in fc.fields <=> "status" \in fc0.fields
        /\ \A i \in DOMAIN fc.rows :
              IF "status" \in fc.fields
              THEN fc0.rows[i].SHAPE # NULL =>
                       fc.rows[i].status \in Classifications(env.kind)
              ELSE fc.rows[i].status = NULL

\* the class had no status field, and a row with geometry was classified:
\* its station GUID was written, and the field is gone again
C6_Witness ==
    /\ Returned({"BG_update_point_fc_within_station_boundary"})
    /\ "status" \notin fc0.fields
    /\ \E i \in DOMAIN fc.rows :
          /\ fc0.rows[i].SHAPE # NULL
          /\ fc.rows[i].MIG_STATIONGUID \notin {NULL, "old"}

\* C7: classify_junction returns 'Overhead Conductor' when every subtype is
\* in overhead_types, 'Underground Conductor' when every subtype is in
\* underground_types and not all are in overhead_types, and 'Overhead
\* Conductor Underground Conductor' in every other case: one of the three
\* for every set.
C7_ThreeWayRule ==
    fn = "classify_junction" =>
        LET allOverhead == env.subtypes \subseteq overhead_types
            allUnderground == env.subtypes \subseteq underground_types
        IN /\ allOverhead => out = "Overhead Conductor"
           /\ (allUnderground /\ ~allOverhead) => out = "Underground Conductor"
           /\ (~allOverhead /\ ~allUnderground) =>
                 out = "Overhead Conductor Underground Conductor"
           /\ out \in {"Overhead Conductor", "Underground Conductor",
                       "Overhead Conductor Underground Conductor"}

\* two underground subtypes: 'Underground Conductor'
C7_Witness ==
    /\ fn = "classify_junction"
    /\ Cardinality(env.subtypes) = 2
    /\ out = "Underground Conductor"

\* C8: after a successful update_conductor_type, a target row whose value was
\* 'Conductor' and whose OBJECTID is in the one-to-many join holds
\* classify_junction of the set of subtypes of the conductors joined to it;
\* every other row is as it was.
C8_ConductorRowsReclassified ==
    Returned({"BG_update_conductor_type"}) =>
        \A i \in DOMAIN fc.rows :
            LET before == fc0.rows[i]
                joined == {r[2] : r \in {q \in TempJoinConductor(fc0.rows) :
                                            q[1] = before.OBJECTID}}
            IN IF before.MIG_PARENTTYPE = "Conductor" /\ joined # {}
               THEN fc.rows[i] =
                        [before EXCEPT !.MIG_PARENTTYPE =
                            classify_junction(joined, overhead_types, underground_types)]
               ELSE fc.rows[i] = before

\* one 'Conductor' row joined to an overhead and an underground conductor,
\* and one 'Busbar' row joined to a conductor, left alone
C8_Witness ==
    /\ Returned({"BG_update_conductor_type"})
    /\ \E i, j \in DOMAIN fc.rows :
          /\ fc0.rows[i].MIG_PARENTTYPE = "Conductor"
          /\ fc.rows[i].MIG_PARENTTYPE = "Overhead Conductor Underground Conductor"
          /\ fc0.rows[j].MIG_PARENTTYPE = "Busbar"
          /\ fc0.rows[j].joined # {}
          /\ fc.rows[j] = fc0.rows[j]

\* C9: after a successful update_field_based_on_whether_it_lies, a target
\* feature that intersects at least one join layer of mapping_layers holds the
\* value of the first such layer in the order of mapping_layers (no later
\* layer overwrites it); a feature that intersects none is as it was.
C9_FirstLayerWins ==
    Returned({"BG_update_field_based_on_whether_it_lies",
              "ROM_update_field_based_on_whether_it_lies"}) =>
        \A i \in DOMAIN fc.rows :
            LET m == env.mapping_layers
                hit == {k \in DOMAIN m : m[k][1] \in fc0.rows[i].intersects}
                first == CHOOSE k \in hit : \A l \in hit : k <= l
            IN IF hit = {} THEN fc.rows[i] = fc0.rows[i]
               ELSE fc.rows[i] = [fc0.rows[i] EXCEPT !.MIG_PARENTTYPE = m[first][2]]

\* a feature that intersects both layers of a mapping of two holds the
\* value of the first
C9_Witness ==
    /\ Returned({"BG_update_field_based_on_whether_it_lies"})
    /\ Len(env.mapping_layers) = 2
    /\ \E i \in DOMAIN fc.rows :
          /\ \A k \in 1..2 : env.mapping_layers[k][1] \in fc0.rows[i].intersects
          /\ fc.rows[i].MIG_PARENTTYPE = env.mapping_layers[1][2]

\* C10: after a successful update_mig_voltage, among the join layers
\* supplied, a destination feature's MIG_VOLTAGE is the voltage of its busbar
\* join row if that exists with a non-empty voltage, else of its conductor
\* join row if that does, else of its internal-connection join row if that
\* does, and is unchanged if none does.
C10_BusbarConductorInternal ==
    Returned({"BG_update_mig_voltage", "ROM_update_mig_voltage"}) =>
        \A i \in DOMAIN fc.rows :
            LET before == fc0.rows[i]
                has(layer) == /\ layer \in env.supplied
                              /\ before[layer] \notin {"absent", NULL, ""}
            IN fc.rows[i] =
                   [before EXCEPT !.MIG_VOLTAGE =
                       IF has("busbar") THEN before.busbar
                       ELSE IF has("conductor") THEN before.conductor
                       ELSE IF has("internal") THEN before.internal
                       ELSE before.MIG_VOLTAGE]

\* a feature joined to all three layers, each with a voltage, holds the
\* busbar's
C10_Witness ==
    /\ Returned({"BG_update_mig_voltage"})
    /\ env.supplied = {"internal", "conductor", "busbar"}
    /\ \E i \in DOMAIN fc.rows :
          /\ fc0.rows[i].internal = "0.4 kV"
          /\ fc0.rows[i].conductor = "20 kV"
          /\ fc0.rows[i].busbar = "110 kV"
          /\ fc.rows[i].MIG_VOLTAGE = "110 kV"

\* C11: after update_mig_issource (BG) returns, check_relationship having
\* returned for every row, a row's MIG_ISSOURCE is 1 if source_fc and the
\* column are given and some source row's column value equals the row's
\* OBJECTID; otherwise 2 if its SUBSOURCE is 1; otherwise what it was.
C11_IsSourceRule ==
    (Returned({"BG_update_mig_issource"}) /\ ~LogHas(<<"raise", "CheckError">>)) =>
        \A i \in DOMAIN fc.rows :
            LET before == fc0.rows[i]
                related == /\ env.given
                           /\ \E j \in DOMAIN env.source :
                                  env.source[j] = before.OBJECTID
            IN fc.rows[i] =
                   [before EXCEPT !.MIG_ISSOURCE =
                       IF related THEN PyInt(1)
                       ELSE IF before.SUBSOURCE = PyInt(1) THEN PyInt(2)
                       ELSE before.MIG_ISSOURCE]

\* two rows with SUBSOURCE 1: the one a source row names holds 1, the other 2
C11_Witness ==
    /\ Returned({"BG_update_mig_issource"})
    /\ ~LogHas(<<"raise", "CheckError">>)
    /\ env.given
    /\ \E i, j \in DOMAIN fc.rows :
          /\ fc0.rows[i].SUBSOURCE = PyInt(1)
          /\ fc0.rows[j].SUBSOURCE = PyInt(1)
          /\ \E k \in DOMAIN env.source : env.source[k] = fc0.rows[i].OBJECTID
          /\ fc.rows[i].MIG_ISSOURCE = PyInt(1)
          /\ fc.rows[j].MIG_ISSOURCE = PyInt(2)

SelfFunctions == {"BG_update_fc_self", "ROM_update_fc_self", "DB_update_fc_self"}

\* C12: after a successful update_fc_self, for every row and every tuple
\* (source, target1, target2, ...) of field_updates, each target field holds
\* the row's source field value, whatever it held before: as a string in the
\* BG and ROM versions when the target's name contains 'TEXT', as it is in
\* every other case.
C12_TargetsHoldSourceValue ==
    Returned(SelfFunctions) =>
        \A i \in DOMAIN fc.rows :
            \A k \in DOMAIN env.field_updates :
                LET tuple == env.field_updates[k]
                    source_value == fc0.rows[i][tuple[1]]
                IN \A j \in 2..Len(tuple) :
                       fc.rows[i][tuple[j]] =
                           IF fn # "DB_update_fc_self" /\ tuple[j] = "MIG_OID_TEXT"
                           THEN Str(source_value)
                           ELSE source_value

\* the first row held data in its three target fields; BG has replaced it
\* with the OBJECTID, the OBJECTID as text, and the GLOBALID
C12_Witness ==
    /\ Returned({"BG_update_fc_self"})
    /\ Len(fc.rows) >= 1
    /\ fc0.rows[1].MIG_OID_TEXT = "old"
    /\ fc0.rows[1].MIG_GLOBALID = "{old}"
    /\ fc0.rows[1].GLOBALID = "{guid}"
    /\ fc.rows[1].MIG_OID = PyInt(1)
    /\ fc.rows[1].MIG_OID_TEXT = "1"
    /\ fc.rows[1].MIG_GLOBALID = "{guid}"

\* C13: after update_fc_within returns, an inner row holds 'Station' in
\* MIG_PARENTTYPE if its polygon is within at least one polygon of the outer
\* class, and is as it was if it is within none.
C13_StationIffWithinSomeOuter ==
    Returned({"BG_update_fc_within", "ROM_update_fc_within"}) =>
        \A i \in DOMAIN fc.rows :
            LET before == fc0.rows[i]
                inSome == /\ before.SHAPE # NULL
                          /\ \E j \in WithPolygon : within(before.rel[j])
            IN fc.rows[i] = IF inSome THEN [before EXCEPT !.MIG_PARENTTYPE = "Station"]
                            ELSE before

\* an inner polygon beside two outer polygons, within the second only
C13_Witness ==
    /\ Returned({"BG_update_fc_within"})
    /\ Cardinality(WithPolygon) = 2
    /\ \E i \in DOMAIN fc.rows :
          /\ fc0.rows[i].rel = <<"disjoint", "within">>
          /\ fc0.rows[i].MIG_PARENTTYPE = "old"
          /\ fc.rows[i].MIG_PARENTTYPE = "Station"

\* the functions that edit inside an edit session
SessionFunctions ==
    RowWriters \cup {"DB_update_fc_self", "BG_update_mig_voltage",
                     "BG_update_field_based_on_whether_it_lies"}

\* the calls of `name` on the editor from log position i up to the next
\* startEditing, or to the end of the log
CallsInSession(i, name) ==
    {j \in i..Len(log) :
        /\ log[j][1] = name
        /\ \A k \in (i + 1)..j : log[k][1] # "startEditing"}

\* C14 as claimed: on every path of every function that edits in a session,
\* the paths on which a cursor operation, stopOperation or stopEditing raises
\* included, each startEditing is followed by exactly one stopEditing and
\* its startOperation by exactly one stopOperation, stopOperation first, and
\* no session is left open.
C14_SessionsBracketed ==
    fn \in SessionFunctions =>
        /\ ~edit.editing
        /\ \A i \in DOMAIN log :
              log[i][1] = "startEditing" =>
                  /\ Cardinality(CallsInSession(i, "startOperation")) = 1
                  /\ Cardinality(CallsInSession(i, "stopOperation")) = 1
                  /\ Cardinality(CallsInSession(i, "stopEditing")) = 1
                  /\ \A a \in CallsInSession(i, "stopOperation") :
                         \A b \in CallsInSession(i, "stopEditing") : a < b

\* C15 as claimed: update_fc_from_dict (BG) emits the warning 'No related
\* data found ... with key value ...' only when a destination row selected by
\* where_clause has a key that no source row has, and the key the warning
\* names is the key of such a row.
C15_WarningNamesUnmatchedKey ==
    fn = "BG_update_fc_from_dict" =>
        \A w \in DOMAIN log :
            log[w][1] = "AddWarning" =>
                \E i \in DOMAIN fc0.rows :
                    /\ fc0.rows[i].sel
                    /\ \A j \in DOMAIN env.source : env.source[j].key # fc0.rows[i].key
                    /\ log[w][2] = fc0.rows[i].key

\* C16 as claimed: update_fc_from_dict (BG) returns normally once it has
\* committed its edit session (stopEditing(True) has returned), whatever the
\* source and the destination hold, a destination of which where_clause
\* selects no row included.
C16_ReturnsAfterCommit ==
    (/\ fn = "BG_update_fc_from_dict"
     /\ LogHas(<<"stopEditing", "True">>)
     /\ ~LogHas(<<"raise", "StopEditingError">>)) => ret = "ok"

\* where in the log an exception is raised
Raises == {j \in DOMAIN log : log[j][1] = "raise"}

\* C17 as claimed: when update_fc_from_dict (BG) or
\* update_field_based_on_whether_it_lies (BG) fails, a failure while reading
\* the source or the join output before any destination row is visited
\* included, the caller receives the exception that caused the failure (the
\* first one raised), unless the except handler itself raised: never one
\* that the finally block raised in its place.
C17_CallerReceivesTheCause ==
    (/\ fn \in {"BG_update_fc_from_dict", "BG_update_field_based_on_whether_it_lies"}
     /\ Raises # {}
     /\ ~LogHas(<<"raise", "HandlerError">>)) =>
        ret = log[CHOOSE j \in Raises : \A k \in Raises : j <= k][2]

\* C18 as claimed: if update_field_based_on_whether_it_lies (BG) raises
\* while it processes any layer of mapping_layers, the target class holds no
\* parent-type change of that call, the changes made for the layers before
\* included.
C18_AllOrNothingAcrossLayers ==
    (fn = "BG_update_field_based_on_whether_it_lies" /\ ret # "ok") =>
        \A i \in DOMAIN fc.rows :
            fc.rows[i].MIG_PARENTTYPE = fc0.rows[i].MIG_PARENTTYPE

\* the migration fields C19 names, and in BG the parent type of the class
\* update_conductor_type reclassifies
WatchedFields(script) ==
    {"Bay.MIG_STATIONGUID", "CircuitSource.MIG_OID", "CircuitSourceID.MIG_OID",
     "Transformer.MIG_STATIONGUID"}
      \cup IF script = "BG" THEN {"Electric_Net_Junctions.MIG_PARENTTYPE"} ELSE {}

\* the step of main() that the log entry names by its line
StepLogged(entry) ==
    CHOOSE step \in Range(MainSteps(env.script)) : ToString(step.line) = entry[2]

\* C19: in BG and ROM main(), a step that reads Bay.MIG_STATIONGUID,
\* CircuitSource.MIG_OID, CircuitSourceID.MIG_OID or
\* Transformer.MIG_STATIONGUID runs after a step that writes that field of
\* that class, and in BG main() update_conductor_type runs after the
\* update_field_based_on_whether_it_lies call that writes MIG_PARENTTYPE of
\* the same class.
C19_ReadsRunAfterWrites ==
    op = "main" =>
        \A j \in DOMAIN log :
            \A field \in StepLogged(log[j]).reads \cap WatchedFields(env.script) :
                \E i \in 1..(j - 1) :
                    /\ field \in StepLogged(log[i]).writes
                    /\ StepLogged(log[j]).function = "update_conductor_type" =>
                           StepLogged(log[i]).function =
                               "update_field_based_on_whether_it_lies"

\* ROM main() has run to its end: Transformer.MIG_STATIONGUID has been read
\* for TransformerUnit
C19_Witness ==
    /\ op = "main" /\ env.script = "ROM" /\ ret = "ok"
    /\ pc = Len(ROM_main)
    /\ "Transformer.MIG_STATIONGUID" \in StepLogged(log[pc]).reads
    /\ "Transformer.MIG_STATIONGUID" \in fc.fields

\* C20: classify_junction returns 'Overhead Conductor Underground Conductor'
\* only for a set of subtypes that contains at least one subtype of
\* overhead_types and at least one subtype of underground_types.
C20_MixedMeansBothPresent ==
    (fn = "classify_junction" /\ out = "Overhead Conductor Underground Conductor") =>
        /\ env.subtypes \cap overhead_types # {}
        /\ env.subtypes \cap underground_types # {}

====
